---- MODULE Spec2Model ----
(***************************************************************************)
(* Model of the Ec2Instance reconciler (controller Reconcile and its AWS   *)
(* helpers).  One custom resource is reconciled against the EC2 provider.  *)
(* A reconcile pass is one atomic step: the dispatcher runs at most one    *)
(* pass per resource at a time.  Every provider call and every store write *)
(* of a pass has its outcome drawn nondeterministically.                   *)
(***************************************************************************)
EXTENDS Integers, Sequences, FiniteSets, TLC

\* ---------------------------------------------------------------- bounds
\* RunInstances launches at most this many instances (afterwards it fails).
MaxInstances == 2
\* The store accepts at most this many entries in metadata.finalizers.
MaxFinalizers == 2

\* ------------------------------------------------------------- constants
FinalizerToken == "ec2instance.compute.cloud.com"

\* A nil *string of the AWS SDK record.
NIL == "nil-pointer"

CallOutcome == {"ok", "err"}

InstanceName(n) == "i-" \o ToString(n)

InstanceIds == 1..MaxInstances

\* helpers.DerefString
DerefString(s) == IF s # NIL THEN s ELSE "<nil>"

\* Ec2InstanceStatus as Reconcile uses it (all strings).
EmptyStatus ==
    [InstanceID |-> "", State |-> "", PublicIP |-> "", PrivateIP |-> "",
     PublicDNS |-> "", PrivateDNS |-> ""]

\* ec2types.Instance records DescribeInstances can return for instance id:
\* every address / DNS pointer may be nil.
InstanceRecords(id) ==
    [InstanceId : {id}, State : {"running"},
     PublicIpAddress : {NIL, "1.2.3.4"}, PrivateIpAddress : {NIL, "10.0.0.5"},
     PublicDnsName : {NIL, "ec2.pub"}, PrivateDnsName : {NIL, "ip.internal"}]

NoRecord == [InstanceId |-> NIL]

\* ----------------------------------------------------------------- state
VARIABLES
    exists,             \* the resource is in the store (r.Get finds it)
    deletionTimestamp,  \* metadata.deletionTimestamp is set
    finalizers,         \* metadata.finalizers, as persisted
    status,             \* status subresource, as persisted
    instances,          \* provider: lifecycle state of each instance id
    last,               \* what the last reconcile pass did and returned
    epochLaunches,      \* instances launched since status.instanceID was last cleared
    epochPersists       \* created ids persisted since status.instanceID was last cleared

vars == <<exists, deletionTimestamp, finalizers, status, instances, last,
          epochLaunches, epochPersists>>

\* No pass has just run (initially, and after a step of the environment).
NoPass ==
    [path |-> "none", log |-> <<>>, Requeue |-> FALSE, RequeueAfter |-> 0,
     err |-> FALSE, panic |-> "none", rec |-> NoRecord, cancelled |-> FALSE]

Result(path, log, requeue, after, err) ==
    [path |-> path, log |-> log, Requeue |-> requeue, RequeueAfter |-> after,
     err |-> err, panic |-> "none", rec |-> NoRecord, cancelled |-> FALSE]

\* The pass died dereferencing the nil pointer why: nothing is returned.
Panic(path, log, why) ==
    [path |-> path, log |-> log, Requeue |-> FALSE, RequeueAfter |-> 0,
     err |-> FALSE, panic |-> why, rec |-> NoRecord, cancelled |-> FALSE]

Init ==
    /\ exists = TRUE
    /\ deletionTimestamp = FALSE
    /\ finalizers = <<>>
    /\ status = EmptyStatus
    /\ instances = [n \in InstanceIds |-> "none"]
    /\ last = NoPass
    /\ epochLaunches = 0
    /\ epochPersists = 0

\* -------------------------------------------------------------- provider
Launched(inst) == {n \in InstanceIds : inst[n] # "none"}

\* The provider's number for an id string (0 when it names no instance).
IdNum(inst, id) ==
    IF \E n \in Launched(inst) : InstanceName(n) = id
    THEN CHOOSE n \in Launched(inst) : InstanceName(n) = id
    ELSE 0

Live(inst) == {n \in InstanceIds : inst[n] \in {"running", "stopped", "shutting-down"}}


\* TerminateInstances: an empty id is malformed and always rejected; any
\* other call may succeed or fail.
TerminateOutcomes(id) == IF id = "" THEN {"err"} ELSE CallOutcome

\* RunInstances: ok (one instance), empty (no error, zero instances), err.
RunOutcomes(inst) ==
    IF Cardinality(Launched(inst)) < MaxInstances
    THEN {"ok", "empty", "err"}
    ELSE {"empty", "err"}

\* r.Update of a resource carrying the finalizer list fin.
UpdateOutcomes(fin) == IF Len(fin) <= MaxFinalizers THEN CallOutcome ELSE {"err"}

\* checkEC2InstanceExists: DescribeInstances filtered to "running".
\* desc is the outcome of the API call, rec the record it carries.
checkEC2InstanceExists(inst, instanceID, desc, rec) ==
    LET n == IdNum(inst, instanceID) IN
    IF desc = "err"
    THEN [exist |-> FALSE, rec |-> NoRecord, err |-> TRUE]
    ELSE IF n = 0 \/ inst[n] # "running"
    THEN [exist |-> FALSE, rec |-> NoRecord, err |-> FALSE]
    ELSE [exist |-> TRUE, rec |-> rec, err |-> FALSE]

\* The CreatedInstanceInfo built from the launched id and the described record.
CreatedInstanceInfo(id, rec) ==
    [InstanceID |-> id,
     State      |-> rec.State,
     PublicIP   |-> DerefString(rec.PublicIpAddress),
     PrivateIP  |-> DerefString(rec.PrivateIpAddress),
     PublicDNS  |-> DerefString(rec.PublicDnsName),
     PrivateDNS |-> DerefString(rec.PrivateDnsName)]

\* createEc2Instance: RunInstances, wait for running, DescribeInstances.
\* kind: "err" (error returned), "nil" (nil, nil returned), "PublicDnsName"
\* (the nil pointer the call died on), "ok".
\* A launched instance is taken to be running (its boot is not a step of
\* its own), also when the waiter gives up on it.
createEc2Instance(inst, run, wait, cdesc, rec) ==
    LET n     == Cardinality(Launched(inst)) + 1
        inst1 == [inst EXCEPT ![n] = "running"]
    IN
    IF run = "err"
    THEN [kind |-> "err", info |-> EmptyStatus, instances |-> inst,
          log |-> <<"RunInstances:err">>, launched |-> 0]
    ELSE IF run = "empty"
    THEN [kind |-> "nil", info |-> EmptyStatus, instances |-> inst,
          log |-> <<"RunInstances:empty">>, launched |-> 0]
    ELSE IF wait = "err"
    THEN [kind |-> "err", info |-> EmptyStatus, instances |-> inst1,
          log |-> <<"RunInstances:ok", "WaitRunning:err">>, launched |-> n]
    ELSE IF cdesc = "err"
    THEN [kind |-> "err", info |-> EmptyStatus, instances |-> inst1,
          log |-> <<"RunInstances:ok", "WaitRunning:ok", "Describe:err">>,
          launched |-> n]
    ELSE IF rec.PublicDnsName = NIL
    THEN [kind |-> "PublicDnsName", info |-> EmptyStatus, instances |-> inst1,
          log |-> <<"RunInstances:ok", "WaitRunning:ok", "Describe:ok">>,
          launched |-> n]
    ELSE [kind |-> "ok", info |-> CreatedInstanceInfo(InstanceName(n), rec),
          instances |-> inst1,
          log |-> <<"RunInstances:ok", "WaitRunning:ok", "Describe:ok">>,
          launched |-> n]

\* deleteEc2Instance: TerminateInstances on status.instanceID, then wait
\* for the terminated state.
deleteEc2Instance(inst, instanceID, term, twait) ==
    LET n     == IdNum(inst, instanceID)
        inst1 == IF n # 0 /\ inst[n] # "terminated"
                 THEN [inst EXCEPT ![n] = "shutting-down"] ELSE inst
        inst2 == IF n # 0 THEN [inst EXCEPT ![n] = "terminated"] ELSE inst
    IN
    IF term = "err"
    THEN [ok |-> FALSE, instances |-> inst, log |-> <<"TerminateInstances:err">>]
    ELSE IF twait = "err"
    THEN [ok |-> FALSE, instances |-> inst1,
          log |-> <<"TerminateInstances:ok", "WaitTerminated:err">>]
    ELSE [ok |-> TRUE, instances |-> inst2,
          log |-> <<"TerminateInstances:ok", "WaitTerminated:ok">>]

\* controllerutil.RemoveFinalizer: drops every occurrence of the token.
RemoveFinalizer(fin, token) == SelectSeq(fin, LAMBDA f : f # token)

ContainsFinalizer(fin, token) == \E i \in 1..Len(fin) : fin[i] = token


\* ------------------------------------------------------------- Reconcile
\* Variant of ReconcileBranch without the status.instanceID test: a resource
\* that is not being deleted always takes the creation branch.
ReconcileBranchNoIdCheck(ex, dt, instanceID) ==
    IF ~ex THEN "gone"
    ELSE IF dt THEN "delete"
    ELSE "create"

\* Variant of ReconcileBranch that tests status.instanceID before the
\* deletion timestamp.
ReconcileBranchIdFirst(ex, dt, instanceID) ==
    IF ~ex THEN "gone"
    ELSE IF instanceID # "" THEN "verify"
    ELSE IF dt THEN "delete"
    ELSE "create"

\* Which branch of Reconcile a pass takes.
ReconcileBranch(ex, dt, instanceID) ==
    IF ~ex THEN "gone"
    ELSE IF dt THEN "delete"
    ELSE IF instanceID # "" THEN "verify"
    ELSE "create"

Outcome(fin, st, inst, ex, l) ==
    [finalizers |-> fin, status |-> st, instances |-> inst, exists |-> ex,
     last |-> l]

\* Variant of DeletionPath that ignores the error of deleteEc2Instance and
\* goes on to remove the finalizer.
DeletionPathIgnoreError(fin, st, inst, term, twait, upd) ==
    LET d    == deleteEc2Instance(inst, st.InstanceID, term, twait)
        fin1 == RemoveFinalizer(fin, FinalizerToken)
        log  == <<"Get:ok">> \o d.log
    IN
    IF upd = "err"
    THEN Outcome(fin, st, d.instances, TRUE,
                 Result("delete", log \o <<"Update:err">>, TRUE, 0, TRUE))
    ELSE Outcome(fin1, st, d.instances, fin1 # <<>>,
                 Result("delete", log \o <<"Update:ok">>, FALSE, 0, FALSE))

\* The deletion branch: terminate, then remove the finalizer and persist.
\* The store removes a resource marked for deletion with the write that
\* empties its finalizer list.
DeletionPath(fin, st, inst, term, twait, upd) ==
    LET d    == deleteEc2Instance(inst, st.InstanceID, term, twait)
        fin1 == RemoveFinalizer(fin, FinalizerToken)
        log  == <<"Get:ok">> \o d.log
    IN
    IF ~d.ok
    THEN Outcome(fin, st, d.instances, TRUE,
                 Result("delete", log, TRUE, 0, TRUE))
    ELSE IF upd = "err"
    THEN Outcome(fin, st, d.instances, TRUE,
                 Result("delete", log \o <<"Update:err">>, TRUE, 0, TRUE))
    ELSE Outcome(fin1, st, d.instances, fin1 # <<>>,
                 Result("delete", log \o <<"Update:ok">>, FALSE, 0, FALSE))

\* Variant of VerificationPath that refreshes the status whenever the
\* instance is found, whatever status.state was.
VerificationPathAlwaysRefresh(fin, st, inst, desc, rec, stu) ==
    LET c       == checkEC2InstanceExists(inst, st.InstanceID, desc, rec)
        unknown == [st EXCEPT !.State = "Unknown", !.PublicIP = ""]
        fresh   == [st EXCEPT !.State = c.rec.State,
                              !.PublicIP = c.rec.PublicIpAddress]
        written(new) == IF stu = "ok" THEN new ELSE st
        sulog   == <<"StatusUpdate:" \o stu>>
    IN
    IF c.err
    THEN Outcome(fin, written(EmptyStatus), inst, TRUE,
                 Result("verify", <<"Get:ok", "Describe:err">> \o sulog,
                        TRUE, 0, stu = "err"))
    ELSE IF ~c.exist
    THEN Outcome(fin, written(unknown), inst, TRUE,
                 Result("verify", <<"Get:ok", "Describe:notfound">> \o sulog,
                        FALSE, 0, FALSE))
    ELSE IF c.rec.PublicIpAddress = NIL
    THEN Outcome(fin, st, inst, TRUE,
                 [Panic("verify", <<"Get:ok", "Describe:found">>,
                        "PublicIpAddress") EXCEPT !.rec = c.rec])
    ELSE Outcome(fin, written(fresh), inst, TRUE,
                 [Result("verify", <<"Get:ok", "Describe:found">> \o sulog,
                         FALSE, 0, FALSE) EXCEPT !.rec = c.rec])

\* The verification branch (status.instanceID is set).
VerificationPath(fin, st, inst, desc, rec, stu) ==
    LET c       == checkEC2InstanceExists(inst, st.InstanceID, desc, rec)
        unknown == [st EXCEPT !.State = "Unknown", !.PublicIP = ""]
        fresh   == [st EXCEPT !.State = c.rec.State,
                              !.PublicIP = c.rec.PublicIpAddress]
        written(new) == IF stu = "ok" THEN new ELSE st
        sulog   == <<"StatusUpdate:" \o stu>>
    IN
    IF c.err
    THEN Outcome(fin, written(EmptyStatus), inst, TRUE,
                 Result("verify", <<"Get:ok", "Describe:err">> \o sulog,
                        TRUE, 0, stu = "err"))
    ELSE IF ~c.exist
    THEN Outcome(fin, written(unknown), inst, TRUE,
                 Result("verify", <<"Get:ok", "Describe:notfound">> \o sulog,
                        FALSE, 0, FALSE))
    ELSE IF st.State = "Unknown"
    THEN IF c.rec.PublicIpAddress = NIL
         THEN Outcome(fin, st, inst, TRUE,
                      [Panic("verify", <<"Get:ok", "Describe:found">>,
                             "PublicIpAddress") EXCEPT !.rec = c.rec])
         ELSE Outcome(fin, written(fresh), inst, TRUE,
                      [Result("verify", <<"Get:ok", "Describe:found">> \o sulog,
                              FALSE, 0, FALSE) EXCEPT !.rec = c.rec])
    ELSE Outcome(fin, st, inst, TRUE,
                 [Result("verify", <<"Get:ok", "Describe:found">>, FALSE, 0, FALSE)
                    EXCEPT !.rec = c.rec])

\* Variant of CreationPath that logs a failed write of the finalizer and
\* goes on to create the instance.
CreationPathIgnoreUpdateError(fin, st, inst, upd, run, wait, cdesc, rec, stu) ==
    LET fin1 == IF upd = "ok" THEN Append(fin, FinalizerToken) ELSE fin
        c    == createEc2Instance(inst, run, wait, cdesc, rec)
        log  == <<"Get:ok", "Update:" \o upd>> \o c.log
    IN
    IF c.kind = "err"
    THEN Outcome(fin1, st, c.instances, TRUE,
                 Result("create", log, FALSE, 0, TRUE))
    ELSE IF c.kind = "nil"
    THEN Outcome(fin1, st, c.instances, TRUE,
                 Panic("create", log, "createdInstanceInfo"))
    ELSE IF c.kind = "PublicDnsName"
    THEN Outcome(fin1, st, c.instances, TRUE,
                 [Panic("create", log, c.kind) EXCEPT !.rec = rec])
    ELSE IF stu = "err"
    THEN Outcome(fin1, st, c.instances, TRUE,
                 [Result("create", log \o <<"StatusUpdate:err">>, FALSE, 0, TRUE)
                    EXCEPT !.rec = rec])
    ELSE Outcome(fin1, c.info, c.instances, TRUE,
                 [Result("create", log \o <<"StatusUpdate:ok">>, FALSE, 1, FALSE)
                    EXCEPT !.rec = rec])

\* Variant of CreationPath that records the failure of createEc2Instance in
\* the status (state "Failed") before returning the error.
CreationPathWriteOnError(fin, st, inst, upd, run, wait, cdesc, rec, stu) ==
    LET fin1   == Append(fin, FinalizerToken)
        c      == createEc2Instance(inst, run, wait, cdesc, rec)
        log    == <<"Get:ok", "Update:ok">> \o c.log
        failed == [st EXCEPT !.State = "Failed"]
    IN
    IF upd = "err"
    THEN Outcome(fin, st, inst, TRUE,
                 Result("create", <<"Get:ok", "Update:err">>, TRUE, 0, TRUE))
    ELSE IF c.kind = "err"
    THEN Outcome(fin1, IF stu = "ok" THEN failed ELSE st, c.instances, TRUE,
                 Result("create", log \o <<"StatusUpdate:" \o stu>>,
                        FALSE, 0, TRUE))
    ELSE IF c.kind = "nil"
    THEN Outcome(fin1, st, c.instances, TRUE,
                 Panic("create", log, "createdInstanceInfo"))
    ELSE IF c.kind = "PublicDnsName"
    THEN Outcome(fin1, st, c.instances, TRUE,
                 [Panic("create", log, c.kind) EXCEPT !.rec = rec])
    ELSE IF stu = "err"
    THEN Outcome(fin1, st, c.instances, TRUE,
                 [Result("create", log \o <<"StatusUpdate:err">>, FALSE, 0, TRUE)
                    EXCEPT !.rec = rec])
    ELSE Outcome(fin1, c.info, c.instances, TRUE,
                 [Result("create", log \o <<"StatusUpdate:ok">>, FALSE, 1, FALSE)
                    EXCEPT !.rec = rec])

\* The creation branch (status.instanceID is empty).
CreationPath(fin, st, inst, upd, run, wait, cdesc, rec, stu) ==
    LET fin1 == Append(fin, FinalizerToken)
        c    == createEc2Instance(inst, run, wait, cdesc, rec)
        log  == <<"Get:ok", "Update:ok">> \o c.log
    IN
    IF upd = "err"
    THEN Outcome(fin, st, inst, TRUE,
                 Result("create", <<"Get:ok", "Update:err">>, TRUE, 0, TRUE))
    ELSE IF c.kind = "err"
    THEN Outcome(fin1, st, c.instances, TRUE,
                 Result("create", log, FALSE, 0, TRUE))
    ELSE IF c.kind = "nil"
    THEN Outcome(fin1, st, c.instances, TRUE,
                 Panic("create", log, "createdInstanceInfo"))
    ELSE IF c.kind = "PublicDnsName"
    THEN Outcome(fin1, st, c.instances, TRUE,
                 [Panic("create", log, c.kind) EXCEPT !.rec = rec])
    ELSE IF stu = "err"
    THEN Outcome(fin1, st, c.instances, TRUE,
                 [Result("create", log \o <<"StatusUpdate:err">>, FALSE, 0, TRUE)
                    EXCEPT !.rec = rec])
    ELSE Outcome(fin1, c.info, c.instances, TRUE,
                 [Result("create", log \o <<"StatusUpdate:ok">>, FALSE, 1, FALSE)
                    EXCEPT !.rec = rec])

\* The number of instances a pass launched.
LaunchedBy(inst, inst1) == Cardinality(Launched(inst1)) - Cardinality(Launched(inst))

\* Commit the outcome of a pass.
Commit(o) ==
    /\ finalizers' = o.finalizers
    /\ status' = o.status
    /\ instances' = o.instances
    /\ exists' = o.exists
    /\ last' = o.last
    /\ epochLaunches' =
         IF status.InstanceID # "" /\ o.status.InstanceID = ""
         THEN 0 ELSE epochLaunches + LaunchedBy(instances, o.instances)
    /\ epochPersists' =
         IF status.InstanceID # "" /\ o.status.InstanceID = "" THEN 0
         ELSE IF o.last.path = "create" /\ o.status.InstanceID # ""
         THEN epochPersists + 1 ELSE epochPersists
    /\ UNCHANGED deletionTimestamp

\* r.Get finds no resource: the pass ends at once with no error.
ReconcileNotFound ==
    /\ ReconcileBranch(exists, deletionTimestamp, status.InstanceID) = "gone"
    /\ Commit(Outcome(finalizers, status, instances, exists,
                      Result("gone", <<"Get:notfound">>, FALSE, 0, FALSE)))

\* r.Get fails for another reason: the error is returned.
ReconcileGetError ==
    /\ Commit(Outcome(finalizers, status, instances, exists,
                      Result("get", <<"Get:err">>, FALSE, 0, TRUE)))

ReconcileDeletion ==
    /\ ReconcileBranch(exists, deletionTimestamp, status.InstanceID) = "delete"
    /\ \E term \in TerminateOutcomes(status.InstanceID), twait \in CallOutcome,
          upd \in CallOutcome :
         Commit(DeletionPath(finalizers, status, instances, term, twait, upd))

ReconcileVerification ==
    /\ ReconcileBranch(exists, deletionTimestamp, status.InstanceID) = "verify"
    /\ \E desc \in CallOutcome, stu \in CallOutcome,
          rec \in InstanceRecords(status.InstanceID) :
         Commit(VerificationPath(finalizers, status, instances, desc, rec, stu))

ReconcileCreation ==
    /\ ReconcileBranch(exists, deletionTimestamp, status.InstanceID) = "create"
    /\ \E upd \in UpdateOutcomes(Append(finalizers, FinalizerToken)),
          run \in RunOutcomes(instances), wait \in CallOutcome,
          cdesc \in CallOutcome, stu \in CallOutcome,
          rec \in InstanceRecords(InstanceName(Cardinality(Launched(instances)) + 1)) :
         Commit(CreationPath(finalizers, status, instances, upd, run, wait,
                             cdesc, rec, stu))

\* The outcome of a pass during which the context of the request was
\* cancelled.
Cancelled(o) == [o EXCEPT !.last.cancelled = TRUE]

\* The dispatcher cancels ctx while the deletion branch is in
\* TerminateInstances(ctx) or in the terminated waiter (ctx): the call in
\* flight returns an error.
ReconcileDeletionCancelled ==
    /\ ReconcileBranch(exists, deletionTimestamp, status.InstanceID) = "delete"
    /\ \E term \in TerminateOutcomes(status.InstanceID) :
         Commit(Cancelled(DeletionPath(finalizers, status, instances, term,
                                       "err", "err")))

\* The dispatcher cancels ctx while the verification branch is in
\* DescribeInstances(ctx): the query returns an error, and so does the
\* Status().Update(ctx) that follows on the cancelled context.
ReconcileVerificationCancelled ==
    /\ ReconcileBranch(exists, deletionTimestamp, status.InstanceID) = "verify"
    /\ \E rec \in InstanceRecords(status.InstanceID) :
         Commit(Cancelled(VerificationPath(finalizers, status, instances,
                                           "err", rec, "err")))

\* The dispatcher cancels ctx while the creation branch is in
\* createEc2Instance, which is not given ctx: RunInstances, the running
\* waiter and DescribeInstances run on context.TODO() with any outcome; the
\* Status().Update(ctx) that follows fails on the cancelled context.
ReconcileCreationCancelled ==
    /\ ReconcileBranch(exists, deletionTimestamp, status.InstanceID) = "create"
    /\ "ok" \in UpdateOutcomes(Append(finalizers, FinalizerToken))
    /\ \E run \in RunOutcomes(instances), wait \in CallOutcome,
          cdesc \in CallOutcome,
          rec \in InstanceRecords(InstanceName(Cardinality(Launched(instances)) + 1)) :
         Commit(Cancelled(CreationPath(finalizers, status, instances, "ok", run,
                                       wait, cdesc, rec, "err")))

Reconcile ==
    \/ ReconcileNotFound
    \/ ReconcileGetError
    \/ ReconcileDeletion
    \/ ReconcileVerification
    \/ ReconcileCreation
    \/ ReconcileDeletionCancelled
    \/ ReconcileVerificationCancelled
    \/ ReconcileCreationCancelled

\* ----------------------------------------------------------- environment
EnvFrame == /\ last' = NoPass
            /\ UNCHANGED <<epochLaunches, epochPersists>>

\* The user deletes the resource: the store removes it at once when it
\* carries no finalizer, and marks it for deletion otherwise.
UserDelete ==
    /\ exists /\ ~deletionTimestamp
    /\ IF finalizers = <<>>
       THEN exists' = FALSE /\ UNCHANGED deletionTimestamp
       ELSE deletionTimestamp' = TRUE /\ UNCHANGED exists
    /\ UNCHANGED <<finalizers, status, instances>>
    /\ EnvFrame

\* Somebody stops, starts or terminates an instance outside the controller.
ExternalStop ==
    /\ \E n \in InstanceIds :
         /\ instances[n] = "running"
         /\ instances' = [instances EXCEPT ![n] = "stopped"]
    /\ UNCHANGED <<exists, deletionTimestamp, finalizers, status>>
    /\ EnvFrame

ExternalStart ==
    /\ \E n \in InstanceIds :
         /\ instances[n] = "stopped"
         /\ instances' = [instances EXCEPT ![n] = "running"]
    /\ UNCHANGED <<exists, deletionTimestamp, finalizers, status>>
    /\ EnvFrame

ExternalTerminate ==
    /\ \E n \in InstanceIds :
         /\ instances[n] \in {"running", "stopped"}
         /\ instances' = [instances EXCEPT ![n] = "shutting-down"]
    /\ UNCHANGED <<exists, deletionTimestamp, finalizers, status>>
    /\ EnvFrame

\* An instance that is shutting down reaches the terminated state.
ShutdownCompletes ==
    /\ \E n \in InstanceIds :
         /\ instances[n] = "shutting-down"
         /\ instances' = [instances EXCEPT ![n] = "terminated"]
    /\ UNCHANGED <<exists, deletionTimestamp, finalizers, status>>
    /\ EnvFrame

Next ==
    \/ ReconcileNotFound
    \/ ReconcileGetError
    \/ ReconcileDeletion
    \/ ReconcileVerification
    \/ ReconcileCreation
    \/ ReconcileDeletionCancelled
    \/ ReconcileVerificationCancelled
    \/ ReconcileCreationCancelled
    \/ UserDelete
    \/ ExternalStop
    \/ ExternalStart
    \/ ExternalTerminate
    \/ ShutdownCompletes

Spec == Init /\ [][Next]_vars

\* A deletion pass all of whose calls succeed.  TerminateInstances can
\* succeed only on a non-empty instance id.
ReconcileDeletionOk ==
    /\ ReconcileBranch(exists, deletionTimestamp, status.InstanceID) = "delete"
    /\ "ok" \in TerminateOutcomes(status.InstanceID)
    /\ Commit(DeletionPath(finalizers, status, instances, "ok", "ok", "ok"))

\* The dispatcher runs a pass on a resource marked for deletion and retries
\* a failed one (Requeue: true with the error), and the provider and the
\* store do not fail forever: a deletion pass that can succeed eventually
\* does.  A failed deletion pass repeated on the same state leaves the state
\* as it is.
FairSpec ==
    Spec /\ WF_vars(ReconcileDeletion) /\ WF_vars(ReconcileDeletionOk)


\* ---------------------------------------------------------------- claims
InLog(l, e) == \E i \in 1..Len(l.log) : l.log[i] = e

\* Position of event e in the log of a pass (0 when absent).
LogPos(l, e) ==
    IF InLog(l, e) THEN CHOOSE i \in 1..Len(l.log) : l.log[i] = e ELSE 0

\* The pass called createEc2Instance (its first step is RunInstances).
CreateCalled(l) ==
    InLog(l, "RunInstances:ok") \/ InLog(l, "RunInstances:empty")
    \/ InLog(l, "RunInstances:err")

\* deleteEc2Instance returned success (the terminated state was awaited).
DeleteSucceeded(l) == InLog(l, "WaitTerminated:ok")

\* A step of the environment resets last to NoPass, so a step that leaves
\* last' with a path is a reconcile pass.
IsPass(l) == l.path # "none"

\* C1: while status.instanceID is non-empty no reconcile pass calls
\* createEc2Instance, and between two clearings of the status at most one
\* created instance id is persisted into status.instanceID.
C1_SingleCreatePersisted ==
    [][ /\ (status.InstanceID # "" /\ IsPass(last') => ~CreateCalled(last'))
        /\ epochPersists' <= 1 ]_vars

\* C1 witness: a pass has verified (not created) a resource whose persisted
\* instance id came from the one create of its epoch.
C1_Witness ==
    /\ last.path = "verify"
    /\ status.InstanceID # ""
    /\ epochPersists = 1
    /\ ~CreateCalled(last)

\* C2 (as claimed): between an empty status.instanceID and the next non-empty
\* one, at most one instance is launched at the provider, whatever the
\* outcome of each step of the creation path.
C2_SingleCreateRemote == epochLaunches <= 1

\* C3: for a resource marked for deletion the finalizer token leaves the
\* persisted finalizer list only in a pass whose deleteEc2Instance succeeded
\* (the instance named by the status is then terminated); a pass whose
\* deleteEc2Instance failed changes neither the finalizers nor the resource,
\* keeps the token, and returns Requeue with the error.
C3_DeletionSafety ==
    [][ /\ ( /\ exists /\ deletionTimestamp
             /\ ContainsFinalizer(finalizers, FinalizerToken)
             /\ (~exists' \/ ~ContainsFinalizer(finalizers', FinalizerToken))
             => /\ last'.path = "delete"
                /\ DeleteSucceeded(last')
                /\ LET n == IdNum(instances', status.InstanceID)
                   IN  n # 0 /\ instances'[n] = "terminated" )
        /\ ( last'.path = "delete" /\ ~DeleteSucceeded(last')
             => /\ finalizers' = finalizers
                /\ status' = status
                /\ exists' /\ deletionTimestamp'
                /\ ContainsFinalizer(finalizers', FinalizerToken)
                /\ last'.Requeue /\ last'.err ) ]_vars

\* C3 witness: a deletion pass whose wait for termination failed has just
\* run and the token is still on the resource.
C3_Witness ==
    /\ exists /\ deletionTimestamp
    /\ last.path = "delete"
    /\ InLog(last, "WaitTerminated:err")
    /\ ContainsFinalizer(finalizers, FinalizerToken)


\* C4 (as claimed): whenever an instance launched for the resource exists
\* and is not terminated, the resource exists and carries the finalizer
\* token; so when the finalizer is removed every launched instance has been
\* terminated.
C4_NoOrphan ==
    Live(instances) # {} =>
        exists /\ ContainsFinalizer(finalizers, FinalizerToken)

\* C5 (as claimed): a verification pass in which the provider reports the
\* instance not found (or not running), and whose status write succeeds,
\* persists the all-empty status and requests a retry, so that the next pass
\* takes the creation branch.
C5_DivergenceHealing ==
    (last.path = "verify" /\ InLog(last, "Describe:notfound")
       /\ InLog(last, "StatusUpdate:ok"))
        => /\ status = EmptyStatus
           /\ last.Requeue
           /\ ReconcileBranch(exists, deletionTimestamp, status.InstanceID) = "create"

\* An absent optional field as the spec projects it.
AbsentAsEmpty(p) == IF p = NIL THEN "" ELSE p

\* C6 (as claimed): the status written by a successful create equals the
\* described record, an absent address or DNS field becoming "".
C6_StatusProjection ==
    (last.path = "create" /\ InLog(last, "StatusUpdate:ok"))
        => status =
             [InstanceID |-> last.rec.InstanceId,
              State      |-> last.rec.State,
              PublicIP   |-> AbsentAsEmpty(last.rec.PublicIpAddress),
              PrivateIP  |-> AbsentAsEmpty(last.rec.PrivateIpAddress),
              PublicDNS  |-> AbsentAsEmpty(last.rec.PublicDnsName),
              PrivateDNS |-> AbsentAsEmpty(last.rec.PrivateDnsName)]

\* Some optional field of the record is absent.
HasAbsentField(rec) ==
    \/ rec.PublicIpAddress = NIL \/ rec.PrivateIpAddress = NIL
    \/ rec.PublicDnsName = NIL \/ rec.PrivateDnsName = NIL

\* C7 (as claimed): a creation or verification pass that received a record
\* with an absent optional field completes normally: it never dies reading
\* the absent field.
C7_NoNilDereference ==
    (last.path \in {"create", "verify"} /\ last.rec # NoRecord
       /\ HasAbsentField(last.rec))
        => last.panic = "none"

\* C8: a verification pass on a resource not marked for deletion, in which
\* the provider reports the instance running and status.state already equals
\* the reported state, writes nothing (resource, status, finalizers), makes
\* no other provider call, and returns no requeue hint and no error.
C8_SteadyStateNoOp ==
    [][ ( /\ exists /\ ~deletionTimestamp /\ status.InstanceID # ""
          /\ last'.path = "verify" /\ last'.rec # NoRecord
          /\ status.State = last'.rec.State )
        => /\ UNCHANGED <<exists, deletionTimestamp, finalizers, status, instances>>
           /\ last'.log = <<"Get:ok", "Describe:found">>
           /\ ~last'.Requeue /\ last'.RequeueAfter = 0
           /\ ~last'.err /\ last'.panic = "none" ]_vars

\* C8 witness: such a pass has just run on a status in the running state.
C8_Witness ==
    /\ exists /\ ~deletionTimestamp
    /\ last.path = "verify" /\ last.rec # NoRecord
    /\ status.InstanceID = last.rec.InstanceId
    /\ status.State = "running"
    /\ last.log = <<"Get:ok", "Describe:found">>

\* Every call of a creation pass succeeded and RunInstances launched an
\* instance.
AllCreateCallsOk(l) ==
    /\ InLog(l, "Update:ok") /\ InLog(l, "RunInstances:ok")
    /\ InLog(l, "WaitRunning:ok") /\ InLog(l, "Describe:ok")
    /\ ~InLog(l, "StatusUpdate:err")

\* C9 (as claimed, its first step): on a resource with empty status, a
\* creation pass all of whose provider and store calls succeed leaves
\* status.instanceID equal to the id the provider returned, in state
\* "running".  Every creation pass starts from the same empty status, so a
\* pass that can miss this with all calls succeeding can miss it forever.
C9_Convergence ==
    (last.path = "create" /\ AllCreateCallsOk(last))
        => /\ status.InstanceID = last.rec.InstanceId
           /\ status.State = "running"

\* Position of the RunInstances call in the log of a pass (0 when absent).
RunPos(l) ==
    LogPos(l, "RunInstances:ok") + LogPos(l, "RunInstances:empty")
    + LogPos(l, "RunInstances:err")

\* C10: a creation pass calls the provider only after the write that adds
\* the finalizer token has succeeded; when that write fails the pass returns
\* an error, calls no provider and changes nothing; and no step launches an
\* instance unless the persisted resource carries the token.
C10_FinalizerBeforeCreate ==
    [][ /\ ( last'.path = "create" /\ CreateCalled(last')
             => /\ LogPos(last', "Update:ok") # 0
                /\ LogPos(last', "Update:ok") < RunPos(last')
                /\ finalizers' = Append(finalizers, FinalizerToken) )
        /\ ( last'.path = "create" /\ InLog(last', "Update:err")
             => /\ ~CreateCalled(last')
                /\ last'.err
                /\ UNCHANGED <<finalizers, status, instances>> )
        /\ ( Launched(instances') # Launched(instances)
             => /\ last'.path = "create"
                /\ exists'
                /\ ContainsFinalizer(finalizers', FinalizerToken) ) ]_vars

\* C10 witness: a creation pass has launched an instance and the token is
\* on the persisted resource.
C10_Witness ==
    /\ last.path = "create"
    /\ InLog(last, "Update:ok") /\ InLog(last, "RunInstances:ok")
    /\ Live(instances) # {}
    /\ ContainsFinalizer(finalizers, FinalizerToken)


\* C11 (as claimed): a verification pass whose provider query fails with an
\* error other than not-found, and likewise one whose query reports
\* not-found, persists the all-empty status (when the status write succeeds)
\* and requests a retry: the two responses are handled identically.
C11_QueryFailureLikeNotFound ==
    ( /\ last.path = "verify"
      /\ InLog(last, "Describe:err") \/ InLog(last, "Describe:notfound")
      /\ InLog(last, "StatusUpdate:ok") )
        => status = EmptyStatus /\ last.Requeue

\* The part of C11 about the failed query alone, which the code satisfies:
\* the six status fields are cleared, the write is attempted and a retry is
\* requested.
C11_QueryErrorClears ==
    [][ (last'.path = "verify" /\ InLog(last', "Describe:err"))
        => /\ last'.Requeue
           /\ InLog(last', "StatusUpdate:ok") => status' = EmptyStatus
           /\ InLog(last', "StatusUpdate:err") => status' = status /\ last'.err
      ]_vars

\* createEc2Instance returned an error.
CreateFailed(l) ==
    InLog(l, "RunInstances:err") \/ InLog(l, "WaitRunning:err")
    \/ InLog(l, "Describe:err")

\* C12: a creation pass whose createEc2Instance returns an error (RunInstances
\* failure, running-wait failure or describe failure) makes no status write:
\* the persisted status is what it was, instanceID still empty, and the error
\* is returned to the dispatcher.
C12_CreateFailureKeepsStatus ==
    [][ (last'.path = "create" /\ CreateFailed(last'))
        => /\ status' = status
           /\ status'.InstanceID = ""
           /\ ~InLog(last', "StatusUpdate:ok") /\ ~InLog(last', "StatusUpdate:err")
           /\ last'.err /\ last'.panic = "none" ]_vars

\* C12 witness: a creation pass launched an instance, the wait for running
\* failed, and the status is still empty.
C12_Witness ==
    /\ last.path = "create"
    /\ InLog(last, "RunInstances:ok") /\ InLog(last, "WaitRunning:err")
    /\ last.err
    /\ status = EmptyStatus

\* Some provider call or store write of the pass failed.
SomeCallFailed(l) ==
    \E i \in 1..Len(l.log) :
        l.log[i] \in {"Get:err", "Update:err", "StatusUpdate:err",
                      "Describe:err", "RunInstances:err", "WaitRunning:err",
                      "TerminateInstances:err", "WaitTerminated:err"}

\* C13 (as claimed): a pass in which a provider call or a store write failed
\* returns a non-nil error.
C13_ErrorsPropagated ==
    (IsPass(last) /\ SomeCallFailed(last)) => last.err

\* C14 (as claimed): a verification pass that finds the instance running
\* while the persisted status is in state "Unknown" sets the status state
\* and public address to those of the reported record (an absent address
\* becoming ""), persists them unless the store write fails, and returns no
\* requeue hint and no error.
C14_RefreshFromUnknown ==
    [][ ( /\ exists /\ ~deletionTimestamp /\ status.State = "Unknown"
          /\ last'.path = "verify" /\ last'.rec # NoRecord
          /\ ~InLog(last', "StatusUpdate:err") )
        => /\ status'.State = last'.rec.State
           /\ status'.PublicIP = AbsentAsEmpty(last'.rec.PublicIpAddress)
           /\ InLog(last', "StatusUpdate:ok")
           /\ ~last'.Requeue /\ last'.RequeueAfter = 0 /\ ~last'.err
           /\ last'.panic = "none" ]_vars


\* C15 (as claimed): when the dispatcher cancels the request while a
\* provider call of the pass is in flight, that call is aborted (the query,
\* createEc2Instance or deleteEc2Instance returns an error) and the pass
\* returns an error.  Passes that die on a nil pointer (C7, C18) are left
\* aside here.
C15_Cancellation ==
    (last.cancelled /\ last.panic = "none")
        => /\ last.err
           /\ last.path = "verify" => InLog(last, "Describe:err")
           /\ last.path = "delete" => ~DeleteSucceeded(last)
           /\ last.path = "create" => CreateFailed(last)

\* The part of C15 the code satisfies: the calls that are given ctx (the
\* query and the termination) are aborted, nothing is removed, and the pass
\* returns an error.
C15_CtxCallsAborted ==
    (last.cancelled /\ last.path \in {"verify", "delete"})
        => /\ last.err /\ last.Requeue
           /\ last.path = "verify" => InLog(last, "Describe:err")
           /\ last.path = "delete" => ~DeleteSucceeded(last) /\ exists


\* The resource is marked for deletion and carries the finalizer token.
DeletionPending ==
    exists /\ deletionTimestamp /\ ContainsFinalizer(finalizers, FinalizerToken)

\* C16 (as claimed): a resource marked for deletion that carries the token,
\* whatever its status.instanceID, eventually loses the finalizer and is
\* removed, given that deletion passes are retried and calls that can
\* succeed eventually do (FairSpec).
C16_DeletionCompletes == DeletionPending ~> ~exists

\* The part of C16 the code satisfies: with a non-empty status.instanceID
\* the deletion completes.
C16_DeletionCompletesWithId ==
    (DeletionPending /\ status.InstanceID # "") ~> ~exists


\* How many times the token occurs in a finalizer list.
TokenCount(fin) == Cardinality({i \in 1..Len(fin) : fin[i] = FinalizerToken})

\* C17 (as claimed): the persisted finalizer list holds the token at most
\* once, after any sequence of passes.
C17_FinalizerUnique == TokenCount(finalizers) <= 1

\* C18 (as claimed): a creation pass whose RunInstances answers with zero
\* instances and no error completes normally: Reconcile never reads the
\* fields of an absent created-instance record.
C18_CreateResultUsable ==
    (last.path = "create" /\ InLog(last, "RunInstances:empty"))
        => last.panic = "none"

\* The pass made a describe / verification query.
QueryCalled(l) ==
    InLog(l, "Describe:ok") \/ InLog(l, "Describe:err")
    \/ InLog(l, "Describe:found") \/ InLog(l, "Describe:notfound")

\* The pass wrote the status.
StatusWritten(l) == InLog(l, "StatusUpdate:ok") \/ InLog(l, "StatusUpdate:err")

\* C19: a pass on a resource marked for deletion calls neither create nor
\* the verification query, adds no finalizer, writes no status and launches
\* nothing, whatever status.instanceID is; its only provider call is the
\* termination.
C19_DeletionPrecedence ==
    [][ (exists /\ deletionTimestamp /\ IsPass(last'))
        => /\ last'.path \in {"delete", "get"}
           /\ ~CreateCalled(last') /\ ~QueryCalled(last') /\ ~StatusWritten(last')
           /\ status' = status
           /\ Len(finalizers') <= Len(finalizers)
           /\ Launched(instances') = Launched(instances)
           /\ last'.path = "delete"
                => InLog(last', "TerminateInstances:ok")
                   \/ InLog(last', "TerminateInstances:err") ]_vars

\* C19 witness: a deletion pass has just run on a resource whose
\* status.instanceID is set and whose instance is still there to verify.
C19_Witness ==
    /\ deletionTimestamp
    /\ last.path = "delete"
    /\ status.InstanceID # ""
    /\ InLog(last, "TerminateInstances:ok")

====
